---- MODULE Spec2Model ----
(***************************************************************************)
(* Pixel sorting (src/main.rs): classification of a pixel by mode, the     *)
(* scan of one row or column for maximal runs of sortable pixels, the      *)
(* stable in-run sort by the product metric, and main's two passes.        *)
(***************************************************************************)
EXTENDS Integers, Sequences, FiniteSets, TLC

\* ------------------------------------------------------------------ bounds
MaxW == 4
MaxH == 4
MaxCells == 6
MaxTieCells == 4

\* --------------------------------------------------------------- constants
WHITE_THRESHOLD == 1193046
BLACK_THRESHOLD == 3430008
BRIGHT_THRESHOLD == 127
DARK_THRESHOLD == 223

U8 == 256
U16 == 65536

\* v as u32, that is v modulo 2^32 = U16 * U16, from the two 16-bit halves.
AsU32(v) == (v % U16) + U16 * ((v \div U16) % U16)

Modes == {"White", "Black", "Bright", "Dark"}

\* Mode::from_str; "Err" is the anyhow error.  The mode arguments drawn
\* (ModeArgs) are lower-case, on which to_lowercase() changes nothing.
from_str(s) ==
    CASE s = "white" -> "White"
      [] s = "black" -> "Black"
      [] s = "bright" -> "Bright"
      [] s = "dark" -> "Dark"
      [] OTHER -> "Err"

\* ------------------------------------------------------------ pixel metrics
\* A pixel is <<r, g, b, a>>, each channel a u8.
pixel_value(pixel) ==
    AsU32(AsU32(pixel[1] * pixel[2]) * pixel[3])

brightness(pixel) ==
    ((((((pixel[1] + pixel[2]) % U16) + pixel[3]) % U16) \div 3) % U8)

\* Variant of should_sort with non-strict comparisons.
should_sort_nonstrict(pixel, mode) ==
    CASE mode = "White" -> pixel_value(pixel) <= WHITE_THRESHOLD
      [] mode = "Black" -> pixel_value(pixel) >= BLACK_THRESHOLD
      [] mode = "Bright" -> brightness(pixel) >= BRIGHT_THRESHOLD
      [] mode = "Dark" -> brightness(pixel) <= DARK_THRESHOLD

should_sort(pixel, mode) ==
    CASE mode = "White" -> pixel_value(pixel) < WHITE_THRESHOLD
      [] mode = "Black" -> pixel_value(pixel) > BLACK_THRESHOLD
      [] mode = "Bright" -> brightness(pixel) > BRIGHT_THRESHOLD
      [] mode = "Dark" -> brightness(pixel) < DARK_THRESHOLD

\* ------------------------------------------------------------ segment sort
\* The comparator closure of sort_by: "Less", "Equal" or "Greater".
Ord(m, n) == IF m < n THEN "Less" ELSE IF m = n THEN "Equal" ELSE "Greater"

\* Variant of compare keyed on the brightness metric.
compare_brightness(a, b, mode) ==
    IF mode \in {"White", "Bright"}
    THEN Ord(brightness(a), brightness(b))
    ELSE Ord(brightness(b), brightness(a))

compare(a, b, mode) ==
    LET av == pixel_value(a)
        bv == pixel_value(b)
    IN  IF mode \in {"White", "Bright"} THEN Ord(av, bv) ELSE Ord(bv, av)

\* Variant of insert that places an element before its equals.
RECURSIVE insert_unstable(_, _, _)
insert_unstable(sorted, e, mode) ==
    IF sorted = <<>> THEN <<e>>
    ELSE IF compare(e, sorted[Len(sorted)], mode) # "Greater"
         THEN Append(insert_unstable(SubSeq(sorted, 1, Len(sorted) - 1), e, mode),
                     sorted[Len(sorted)])
         ELSE Append(sorted, e)

\* slice::sort_by is a stable sort: an element is placed after every element
\* that does not compare Greater than it.
RECURSIVE insert(_, _, _)
insert(sorted, e, mode) ==
    IF sorted = <<>> THEN <<e>>
    ELSE IF compare(e, sorted[Len(sorted)], mode) = "Less"
         THEN Append(insert(SubSeq(sorted, 1, Len(sorted) - 1), e, mode),
                     sorted[Len(sorted)])
         ELSE Append(sorted, e)

RECURSIVE sort_by(_, _)
sort_by(segment, mode) ==
    IF segment = <<>> THEN <<>>
    ELSE insert(sort_by(SubSeq(segment, 1, Len(segment) - 1), mode),
                segment[Len(segment)], mode)

\* ------------------------------------------------------------------ image
\* ImageBuffer<Rgba<u8>, Vec<u8>>: [width, height, px], px maps <<x, y>> to a
\* pixel.  get_pixel and put_pixel panic outside the bounds.
Coords(w, h) == (0 .. (w - 1)) \X (0 .. (h - 1))

InBounds(im, x, y) == x >= 0 /\ x < im.width /\ y >= 0 /\ y < im.height

Fault == 0 - 1

\* ------------------------------------------------------------- process_row
\* while x < img.width() && !should_sort(img.get_pixel(x, y), mode) { x += 1 }
\* Variant of row_skip without the x < img.width() guard.
RECURSIVE row_skip_unguarded(_, _, _, _)
row_skip_unguarded(im, x, y, mode) ==
    IF ~InBounds(im, x, y) THEN Fault
    ELSE IF ~should_sort(im.px[<<x, y>>], mode)
         THEN row_skip_unguarded(im, x + 1, y, mode)
         ELSE x

RECURSIVE row_skip(_, _, _, _)
row_skip(im, x, y, mode) ==
    IF x < im.width
    THEN IF ~InBounds(im, x, y) THEN Fault
         ELSE IF ~should_sort(im.px[<<x, y>>], mode)
              THEN row_skip(im, x + 1, y, mode)
              ELSE x
    ELSE x

\* while x < img.width() && should_sort(img.get_pixel(x, y), mode) { x += 1 }
\* Variant of row_take that ends one past the first pixel that fails.
RECURSIVE row_take_over(_, _, _, _)
row_take_over(im, x, y, mode) ==
    IF x < im.width
    THEN IF ~InBounds(im, x, y) THEN Fault
         ELSE IF should_sort(im.px[<<x, y>>], mode)
              THEN row_take_over(im, x + 1, y, mode)
              ELSE x + 1
    ELSE x

RECURSIVE row_take(_, _, _, _)
row_take(im, x, y, mode) ==
    IF x < im.width
    THEN IF ~InBounds(im, x, y) THEN Fault
         ELSE IF should_sort(im.px[<<x, y>>], mode)
              THEN row_take(im, x + 1, y, mode)
              ELSE x
    ELSE x

\* (start..end).map(|x| *img.get_pixel(x, y)).collect()
row_segment(im, start, end, y) ==
    [k \in 1 .. (end - start) |-> im.px[<<start + k - 1, y>>]]

\* for (i, pixel) in segment ... { img.put_pixel(start + i, y, pixel) }
\* Variant of row_write that writes the first pixel everywhere.
row_write_first(im, start, y, segment) ==
    [im EXCEPT !.px =
        [c \in DOMAIN im.px |->
            IF c[2] = y /\ c[1] >= start /\ c[1] < start + Len(segment)
            THEN segment[1]
            ELSE im.px[c]]]

row_write(im, start, y, segment) ==
    [im EXCEPT !.px =
        [c \in DOMAIN im.px |->
            IF c[2] = y /\ c[1] >= start /\ c[1] < start + Len(segment)
            THEN segment[c[1] - start + 1]
            ELSE im.px[c]]]

\* One iteration of the outer while loop of process_row, from scan index x.
row_iter(im, x, y, mode) ==
    LET start == row_skip(im, x, y, mode)
        end == IF start = Fault THEN Fault ELSE row_take(im, start, y, mode)
    IN  IF start = Fault \/ end = Fault
        THEN [img |-> im, pos |-> x, start |-> x, end |-> x, fault |-> TRUE]
        ELSE IF start < end
             THEN IF ~InBounds(im, end - 1, y)
                  THEN [img |-> im, pos |-> x, start |-> start, end |-> end,
                        fault |-> TRUE]
                  ELSE [img |-> row_write(im, start, y,
                                   sort_by(row_segment(im, start, end, y), mode)),
                        pos |-> end, start |-> start, end |-> end,
                        fault |-> FALSE]
             ELSE [img |-> im, pos |-> end, start |-> start, end |-> end,
                   fault |-> FALSE]

\* ---------------------------------------------------------- process_column
RECURSIVE col_skip(_, _, _, _)
col_skip(im, x, y, mode) ==
    IF y < im.height
    THEN IF ~InBounds(im, x, y) THEN Fault
         ELSE IF ~should_sort(im.px[<<x, y>>], mode)
              THEN col_skip(im, x, y + 1, mode)
              ELSE y
    ELSE y

\* Variant of col_take that ends one past the first pixel that fails.
RECURSIVE col_take_over(_, _, _, _)
col_take_over(im, x, y, mode) ==
    IF y < im.height
    THEN IF ~InBounds(im, x, y) THEN Fault
         ELSE IF should_sort(im.px[<<x, y>>], mode)
              THEN col_take_over(im, x, y + 1, mode)
              ELSE y + 1
    ELSE y

RECURSIVE col_take(_, _, _, _)
col_take(im, x, y, mode) ==
    IF y < im.height
    THEN IF ~InBounds(im, x, y) THEN Fault
         ELSE IF should_sort(im.px[<<x, y>>], mode)
              THEN col_take(im, x, y + 1, mode)
              ELSE y
    ELSE y

col_segment(im, start, end, x) ==
    [k \in 1 .. (end - start) |-> im.px[<<x, start + k - 1>>]]

\* Variant of col_write that writes one pixel further down.
col_write_shifted(im, start, x, segment) ==
    [im EXCEPT !.px =
        [c \in DOMAIN im.px |->
            IF c[1] = x /\ c[2] >= start + 1 /\ c[2] < start + 1 + Len(segment)
            THEN segment[c[2] - start]
            ELSE im.px[c]]]

col_write(im, start, x, segment) ==
    [im EXCEPT !.px =
        [c \in DOMAIN im.px |->
            IF c[1] = x /\ c[2] >= start /\ c[2] < start + Len(segment)
            THEN segment[c[2] - start + 1]
            ELSE im.px[c]]]

\* One iteration of the outer while loop of process_column, from scan index y.
col_iter(im, x, y, mode) ==
    LET start == col_skip(im, x, y, mode)
        end == IF start = Fault THEN Fault ELSE col_take(im, x, start, mode)
    IN  IF start = Fault \/ end = Fault
        THEN [img |-> im, pos |-> y, start |-> y, end |-> y, fault |-> TRUE]
        ELSE IF start < end
             THEN IF ~InBounds(im, x, end - 1)
                  THEN [img |-> im, pos |-> y, start |-> start, end |-> end,
                        fault |-> TRUE]
                  ELSE [img |-> col_write(im, start, x,
                                   sort_by(col_segment(im, start, end, x), mode)),
                        pos |-> end, start |-> start, end |-> end,
                        fault |-> FALSE]
             ELSE [img |-> im, pos |-> end, start |-> start, end |-> end,
                   fault |-> FALSE]

\* --------------------------------------------- whole calls, whole passes
\* process_row(img, y, mode) run to its return, from scan index x.
RECURSIVE process_row_from(_, _, _, _)
process_row_from(im, x, y, mode) ==
    IF x < im.width
    THEN LET r == row_iter(im, x, y, mode)
         IN  IF r.fault THEN im ELSE process_row_from(r.img, r.pos, y, mode)
    ELSE im

process_row(im, y, mode) == process_row_from(im, 0, y, mode)

RECURSIVE process_column_from(_, _, _, _)
process_column_from(im, x, y, mode) ==
    IF y < im.height
    THEN LET r == col_iter(im, x, y, mode)
         IN  IF r.fault THEN im ELSE process_column_from(r.img, x, r.pos, mode)
    ELSE im

process_column(im, x, mode) == process_column_from(im, x, 0, mode)

\* for y in 0..img.height() { process_row(..) }, from y on.
RECURSIVE row_pass_from(_, _, _)
row_pass_from(im, y, mode) ==
    IF y < im.height
    THEN row_pass_from(process_row(im, y, mode), y + 1, mode)
    ELSE im

row_pass(im, mode) == row_pass_from(im, 0, mode)

RECURSIVE col_pass_from(_, _, _)
col_pass_from(im, x, mode) ==
    IF x < im.width
    THEN col_pass_from(process_column(im, x, mode), x + 1, mode)
    ELSE im

col_pass(im, mode) == col_pass_from(im, 0, mode)

\* The segments the scan of process_row / process_column finds on a line.
RECURSIVE row_segments_from(_, _, _, _)
row_segments_from(im, x, y, mode) ==
    IF x < im.width
    THEN LET r == row_iter(im, x, y, mode)
         IN  IF r.fault THEN <<>>
             ELSE IF r.start < r.end
                  THEN <<(<<r.start, r.end>>)>> \o row_segments_from(im, r.pos, y, mode)
                  ELSE row_segments_from(im, r.pos, y, mode)
    ELSE <<>>

RECURSIVE col_segments_from(_, _, _, _)
col_segments_from(im, x, y, mode) ==
    IF y < im.height
    THEN LET r == col_iter(im, x, y, mode)
         IN  IF r.fault THEN <<>>
             ELSE IF r.start < r.end
                  THEN <<(<<r.start, r.end>>)>> \o col_segments_from(im, x, r.pos, mode)
                  ELSE col_segments_from(im, x, r.pos, mode)
    ELSE <<>>

\* ------------------------------------------------------------------ inputs
\* Pixels of the decoded images.  For each mode, in this order: a sortable
\* pixel, a sortable pixel of another product whose brightness orders the
\* other way, a pixel that is not sortable, and a second sortable pixel that
\* differs from the first and has the same product.
Palette(m) ==
    CASE m = "White" ->
           <<(<<255, 255, 1, 255>>), (<<10, 10, 10, 255>>), (<<200, 200, 200, 255>>),
             (<<1, 255, 255, 255>>)>>
      [] m = "Black" ->
           <<(<<200, 200, 200, 255>>), (<<255, 255, 255, 255>>), (<<10, 10, 10, 255>>),
             (<<200, 200, 200, 0>>)>>
      [] m = "Bright" ->
           <<(<<255, 255, 1, 255>>), (<<130, 130, 130, 255>>), (<<10, 10, 10, 255>>),
             (<<1, 255, 255, 255>>)>>
      [] m = "Dark" ->
           <<(<<255, 255, 1, 255>>), (<<130, 130, 130, 255>>), (<<255, 255, 255, 255>>),
             (<<1, 255, 255, 255>>)>>

\* Images of up to MaxTieCells pixels draw from the four pixels of the
\* palette, larger ones from its first three.
PixelsFor(m, cells) ==
    {Palette(m)[k] : k \in 1 .. (IF cells <= MaxTieCells THEN 4 ELSE 3)}

Images(m) ==
    UNION {
        {[width |-> d[1], height |-> d[2], px |-> f] :
            f \in [Coords(d[1], d[2]) -> PixelsFor(m, d[1] * d[2])]} :
        d \in {e \in (0 .. MaxW) \X (0 .. MaxH) : e[1] * e[2] <= MaxCells}}

EmptyImage == [width |-> 0, height |-> 0, px |-> [c \in Coords(0, 0) |-> <<0, 0, 0, 0>>]]

ModeArgs == {"white", "black", "bright", "dark", "sepia"}
DirectionArgs == {"h", "v", "x"}

\* Channel values of the pixels a classification is probed with: the extremes
\* and the channels of the pixels next to each threshold.
Channels ==
    {0, 38, 51, 56, 64, 127, 128, 149, 157, 167, 188, 211, 222, 223, 245, 250,
     254, 255}
Alphas == {0, 255}
NoProbe == [pixel |-> <<0, 0, 0, 0>>, mode |-> "White", done |-> FALSE, result |-> FALSE]

\* ------------------------------------------------------------------- state
VARIABLES
    args_mode,   \* args.mode as given on the command line
    direction,   \* args.direction: a String, taken as given
    mode,        \* the parsed Mode
    img,         \* the image buffer
    pc,          \* position in main / process_row / process_column
    loop,        \* which of main's four for loops is running
    i,           \* the for loop's variable (x of a column, y of a row)
    scan,        \* the scan index inside process_row / process_column
    img0,        \* history: the image as decoded
    pre,         \* history: the image at entry of the current line call
    segs,        \* history: the segments [start, end) found in the current call
    calls,       \* history: the line calls made so far
    probe        \* a pixel under classification (SpecClassify)

vars == <<args_mode, direction, mode, img, pc, loop, i, scan, img0, pre, segs,
          calls, probe>>

Init ==
    /\ args_mode \in ModeArgs
    /\ direction \in DirectionArgs
    /\ mode = "none"
    /\ img = EmptyImage
    /\ pc = "parse"
    /\ loop = "none"
    /\ i = 0
    /\ scan = 0
    /\ img0 = EmptyImage
    /\ pre = EmptyImage
    /\ segs = <<>>
    /\ calls = <<>>
    /\ probe = NoProbe

\* ------------------------------------------------------------------- main
\* AsdfArgs::parse(): the mode goes through Mode::from_str, the direction is
\* a plain String and is accepted whatever it holds.
Parse ==
    /\ pc = "parse"
    /\ IF from_str(args_mode) = "Err"
       THEN /\ pc' = "usage_error"
            /\ mode' = mode
       ELSE /\ pc' = "read"
            /\ mode' = from_str(args_mode)
    /\ UNCHANGED <<args_mode, direction, img, loop, i, scan, img0, pre, segs,
                   calls, probe>>

\* Read and decode the input, convert to rgba8.
ReadInput ==
    /\ pc = "read"
    /\ \E im \in Images(mode) :
          /\ img' = im
          /\ img0' = im
          /\ pre' = im
    /\ pc' = "match"
    /\ UNCHANGED <<args_mode, direction, mode, loop, i, scan, segs, calls, probe>>

\* open / decode / load_from_memory fail: main returns the error.
ReadError ==
    /\ pc = "read"
    /\ pc' = "io_error"
    /\ UNCHANGED <<args_mode, direction, mode, img, loop, i, scan, img0, pre,
                   segs, calls, probe>>

\* match args.direction.as_str(): the first for loop, or unreachable!().
\* Variant of match_direction with the two arms exchanged.
match_direction_swapped(d) ==
    CASE d = "h" -> "v_rows"
      [] d = "v" -> "h_cols"
      [] OTHER -> "panic"

match_direction(d) ==
    CASE d = "h" -> "h_cols"
      [] d = "v" -> "v_rows"
      [] OTHER -> "panic"

MatchDirection ==
    /\ pc = "match"
    /\ IF match_direction(direction) = "panic"
       THEN /\ pc' = "panic"
            /\ loop' = loop
       ELSE /\ pc' = "for"
            /\ loop' = match_direction(direction)
    /\ i' = 0
    /\ UNCHANGED <<args_mode, direction, mode, img, scan, img0, pre, segs,
                   calls, probe>>

\* for x in 0..img.width() { process_column(&mut img, x, args.mode); }
ForColumns ==
    /\ pc = "for"
    /\ loop \in {"h_cols", "v_cols"}
    /\ IF i < img.width
       THEN /\ pc' = "process_column"
            /\ scan' = 0
            /\ pre' = img
            /\ segs' = <<>>
            /\ calls' = Append(calls, <<"col", i>>)
            /\ UNCHANGED <<loop, i>>
       ELSE /\ IF loop = "h_cols"
               THEN /\ loop' = "h_rows"
                    /\ pc' = "for"
               ELSE /\ loop' = "none"
                    /\ pc' = "write"
            /\ i' = 0
            /\ UNCHANGED <<scan, pre, segs, calls>>
    /\ UNCHANGED <<args_mode, direction, mode, img, img0, probe>>

\* for y in 0..img.height() { process_row(&mut img, y, args.mode); }
ForRows ==
    /\ pc = "for"
    /\ loop \in {"h_rows", "v_rows"}
    /\ IF i < img.height
       THEN /\ pc' = "process_row"
            /\ scan' = 0
            /\ pre' = img
            /\ segs' = <<>>
            /\ calls' = Append(calls, <<"row", i>>)
            /\ UNCHANGED <<loop, i>>
       ELSE /\ IF loop = "v_rows"
               THEN /\ loop' = "v_cols"
                    /\ pc' = "for"
               ELSE /\ loop' = "none"
                    /\ pc' = "write"
            /\ i' = 0
            /\ UNCHANGED <<scan, pre, segs, calls>>
    /\ UNCHANGED <<args_mode, direction, mode, img, img0, probe>>

\* process_row(img, i, mode): one iteration of  while x < img.width() { .. }
ProcessRowIter ==
    /\ pc = "process_row"
    /\ scan < img.width
    /\ LET r == row_iter(img, scan, i, mode)
       IN  IF r.fault
           THEN /\ pc' = "panic"
                /\ UNCHANGED <<img, scan, segs>>
           ELSE /\ pc' = pc
                /\ img' = r.img
                /\ scan' = r.pos
                /\ segs' = IF r.start < r.end
                           THEN Append(segs, <<r.start, r.end>>)
                           ELSE segs
    /\ UNCHANGED <<args_mode, direction, mode, loop, i, img0, pre, calls, probe>>

\* process_row returns once x < img.width() fails.
ProcessRowReturn ==
    /\ pc = "process_row"
    /\ ~(scan < img.width)
    /\ pc' = "for"
    /\ i' = i + 1
    /\ UNCHANGED <<args_mode, direction, mode, img, loop, scan, img0, pre, segs,
                   calls, probe>>

\* process_column(img, i, mode): one iteration of  while y < img.height() { .. }
ProcessColumnIter ==
    /\ pc = "process_column"
    /\ scan < img.height
    /\ LET r == col_iter(img, i, scan, mode)
       IN  IF r.fault
           THEN /\ pc' = "panic"
                /\ UNCHANGED <<img, scan, segs>>
           ELSE /\ pc' = pc
                /\ img' = r.img
                /\ scan' = r.pos
                /\ segs' = IF r.start < r.end
                           THEN Append(segs, <<r.start, r.end>>)
                           ELSE segs
    /\ UNCHANGED <<args_mode, direction, mode, loop, i, img0, pre, calls, probe>>

ProcessColumnReturn ==
    /\ pc = "process_column"
    /\ ~(scan < img.height)
    /\ pc' = "for"
    /\ i' = i + 1
    /\ UNCHANGED <<args_mode, direction, mode, img, loop, scan, img0, pre, segs,
                   calls, probe>>

\* img.save / write_with_encoder, then Ok(()).
WriteOutput ==
    /\ pc = "write"
    /\ pc' = "exit"
    /\ UNCHANGED <<args_mode, direction, mode, img, loop, i, scan, img0, pre,
                   segs, calls, probe>>

Next ==
    \/ Parse
    \/ ReadInput
    \/ ReadError
    \/ MatchDirection
    \/ ForColumns
    \/ ForRows
    \/ ProcessRowIter
    \/ ProcessRowReturn
    \/ ProcessColumnIter
    \/ ProcessColumnReturn
    \/ WriteOutput

Spec == Init /\ [][Next]_vars

\* ------------------------------------------------- classification on its own
InitClassify ==
    /\ probe \in [pixel : Channels \X Channels \X Channels \X Alphas,
                  mode : Modes, done : {FALSE}, result : {FALSE}]
    /\ args_mode = "white"
    /\ direction = "h"
    /\ mode = "none"
    /\ img = EmptyImage
    /\ pc = "classify"
    /\ loop = "none"
    /\ i = 0
    /\ scan = 0
    /\ img0 = EmptyImage
    /\ pre = EmptyImage
    /\ segs = <<>>
    /\ calls = <<>>

Classify ==
    /\ pc = "classify"
    /\ ~probe.done
    /\ probe' = [probe EXCEPT !.done = TRUE,
                              !.result = should_sort(probe.pixel, probe.mode)]
    /\ UNCHANGED <<args_mode, direction, mode, img, pc, loop, i, scan, img0, pre,
                   segs, calls>>

NextClassify == Classify

SpecClassify == InitClassify /\ [][NextClassify]_vars

\* ------------------------------------------------- vocabulary of the claims
InRow == pc = "process_row"
InCol == pc = "process_column"
InLine == InRow \/ InCol
LineLen == IF InRow THEN img.width ELSE img.height
LineDone == InLine /\ ~(scan < LineLen)
OnLine(c) == IF InRow THEN c[2] = i ELSE c[1] = i
\* The pixel at index k of the current line of image im.
At(im, k) == IF InRow THEN im.px[<<k, i>>] ELSE im.px[<<i, k>>]
SegPixels(im, s) == [k \in 1 .. (s[2] - s[1]) |-> At(im, s[1] + k - 1)]
SecondPass == loop \in {"h_rows", "v_cols"}

BagOfSeq(q) ==
    [p \in {q[k] : k \in DOMAIN q} |-> Cardinality({k \in DOMAIN q : q[k] = p})]
BagOfImage(im) ==
    [p \in {im.px[c] : c \in DOMAIN im.px} |->
        Cardinality({c \in DOMAIN im.px : im.px[c] = p})]
SameShape(a, b) ==
    a.width = b.width /\ a.height = b.height /\ DOMAIN a.px = DOMAIN b.px
Mask(im, m) == {c \in DOMAIN im.px : should_sort(im.px[c], m)}
InOrder(a, b, m) ==
    IF m \in {"White", "Bright"}
    THEN a[1] * a[2] * a[3] <= b[1] * b[2] * b[3]
    ELSE a[1] * a[2] * a[3] >= b[1] * b[2] * b[3]
WithProduct(q, v) == SelectSeq(q, LAMBDA p : p[1] * p[2] * p[3] = v)
ValidDirections == {"h", "v"}
Terminal == {"exit", "panic", "usage_error", "io_error"}

\* ------------------------------------------------------------------ claims

\* C1: the transform conserves the image: at every point of the run, hence
\* after every process_row / process_column call and at the output, width
\* and height are those of the input and the multiset of whole RGBA pixels
\* equals the input's, and the same holds against the image at entry of the
\* current call.
C1_Conservation ==
    /\ SameShape(img, img0)
    /\ BagOfImage(img) = BagOfImage(img0)
    /\ SameShape(img, pre)
    /\ BagOfImage(img) = BagOfImage(pre)

\* A finished run that moved pixels of differing alpha.
C1_Witness ==
    /\ pc = "exit"
    /\ img # img0
    /\ \E c \in DOMAIN img.px : \E d \in DOMAIN img.px :
          /\ img.px[c][4] # img.px[d][4]
          /\ img.px[c] # img0.px[c]
          /\ img.px[d] # img0.px[d]

\* C2: when process_row / process_column is about to return, every two
\* neighbouring sortable pixels of its line (hence every maximal sortable
\* run) are ordered by the product r*g*b: non-decreasing for White and
\* Bright, non-increasing for Black and Dark.
C2_RunsOrderedByProduct ==
    LineDone =>
        \A k \in 0 .. (LineLen - 2) :
            (should_sort(At(img, k), mode) /\ should_sort(At(img, k + 1), mode))
                => InOrder(At(img, k), At(img, k + 1), mode)

\* A Bright line whose run was reordered so that the product ascends while
\* the brightness descends.
C2_Witness ==
    /\ LineDone
    /\ mode = "Bright"
    /\ img # pre
    /\ \E k \in 0 .. (LineLen - 2) :
          /\ should_sort(At(img, k), mode)
          /\ should_sort(At(img, k + 1), mode)
          /\ At(img, k) # At(pre, k)
          /\ pixel_value(At(img, k)) < pixel_value(At(img, k + 1))
          /\ brightness(At(img, k)) > brightness(At(img, k + 1))

\* C3: during and after a process_row(y) / process_column(x) call, every
\* pixel off that line, and every pixel of the line that does not satisfy
\* should_sort, has the position and RGBA value it had at entry of the call.
C3_Frame ==
    InLine =>
        \A c \in DOMAIN img.px :
            (~OnLine(c) \/ ~should_sort(pre.px[c], mode)) => img.px[c] = pre.px[c]

\* A returned call that changed its line, which also holds a pixel that is
\* not sortable, in an image with other lines.
C3_Witness ==
    /\ LineDone
    /\ img # pre
    /\ \E c \in DOMAIN img.px : OnLine(c) /\ ~should_sort(pre.px[c], mode)
    /\ \E c \in DOMAIN img.px : ~OnLine(c)

\* C5: should_sort is true exactly when the product is below 1,193,046
\* (White) or above 3,430,008 (Black), or the floored mean of r, g, b is above
\* 127 (Bright) or below 223 (Dark); the comparisons are strict, the alpha
\* channel has no influence, and the product fits 32 bits and the channel sum
\* 16 bits, so that neither metric wraps.
C5_BoundaryExact ==
    probe.done =>
        LET p == probe.pixel
            product == p[1] * p[2] * p[3]
            sum == p[1] + p[2] + p[3]
            mean == sum \div 3
        IN  /\ probe.result =
                 (CASE probe.mode = "White" -> product < 1193046
                    [] probe.mode = "Black" -> product > 3430008
                    [] probe.mode = "Bright" -> mean > 127
                    [] probe.mode = "Dark" -> mean < 223)
            /\ \A a \in Alphas :
                 should_sort(<<p[1], p[2], p[3], a>>, probe.mode) = probe.result
            /\ pixel_value(p) = product
            /\ product <= 16581375
            /\ sum <= 765
            /\ brightness(p) = mean
            /\ mean <= 255

\* A pixel whose brightness is exactly the Bright threshold: not sortable.
C5_Witness ==
    /\ probe.done
    /\ probe.mode = "Bright"
    /\ (probe.pixel[1] + probe.pixel[2] + probe.pixel[3]) \div 3 = 127
    /\ ~probe.result

\* The line calls main makes for a direction, in order.
ColumnCalls(im) == [k \in 1 .. im.width |-> <<"col", k - 1>>]
RowCalls(im) == [k \in 1 .. im.height |-> <<"row", k - 1>>]
ExpectedCalls(d, im) ==
    IF d = "h" THEN ColumnCalls(im) \o RowCalls(im) ELSE RowCalls(im) \o ColumnCalls(im)
IsPrefix(q, r) == Len(q) <= Len(r) /\ q = SubSeq(r, 1, Len(q))

\* C4: for 'h' the calls are process_column(0 .. width-1) and then
\* process_row(0 .. height-1), for 'v' the rows and then the columns, at every
\* point of the run; the second pass starts from the result of the first
\* pass, and the output is the second pass applied to the result of the
\* first pass applied to the input.
C4_PassOrder ==
    (direction \in ValidDirections /\ pc \notin {"parse", "read", "io_error"}) =>
        /\ IsPrefix(calls, ExpectedCalls(direction, img0))
        /\ (pc = "for" /\ SecondPass /\ i = 0) =>
              img = IF direction = "h" THEN col_pass(img0, mode)
                                       ELSE row_pass(img0, mode)
        /\ pc \in {"write", "exit"} =>
              /\ calls = ExpectedCalls(direction, img0)
              /\ img = IF direction = "h"
                       THEN row_pass(col_pass(img0, mode), mode)
                       ELSE col_pass(row_pass(img0, mode), mode)

\* An 'h' run whose output differs from the rows-first result, from the row
\* pass of the original pixels and from the first pass alone.
C4_Witness ==
    /\ pc = "exit"
    /\ direction = "h"
    /\ img # col_pass(row_pass(img0, mode), mode)
    /\ img # row_pass(img0, mode)
    /\ img # col_pass(img0, mode)

\* C6: a direction other than 'h' or 'v' is rejected at the boundary: the
\* run never gets past argument parsing with it, so it never reaches the
\* match on the direction.
C6_DirectionValidatedAtBoundary ==
    (direction \notin ValidDirections) => pc \in {"parse", "usage_error"}

\* C8: the segments found on the current line are ranges [start, end) with
\* start < end inside the line, in increasing order without overlap, and the
\* multiset of pixels at the coordinates of each segment is the one that
\* occupied those coordinates at entry of the call.
C8_SegmentsClosed ==
    InLine =>
        /\ \A k \in 1 .. Len(segs) :
              /\ 0 <= segs[k][1]
              /\ segs[k][1] < segs[k][2]
              /\ segs[k][2] <= LineLen
              /\ BagOfSeq(SegPixels(img, segs[k])) = BagOfSeq(SegPixels(pre, segs[k]))
        /\ \A k \in 1 .. (Len(segs) - 1) : segs[k][2] <= segs[k + 1][1]

\* A line with two segments, one of them reordered.
C8_Witness ==
    /\ LineDone
    /\ Len(segs) >= 2
    /\ \E k \in 1 .. Len(segs) : SegPixels(img, segs[k]) # SegPixels(pre, segs[k])

\* C9: within every segment of the current line, the pixels of any one
\* product r*g*b appear in the order they had at entry of the call.
C9_StableTies ==
    InLine =>
        \A k \in 1 .. Len(segs) :
            \A j \in 1 .. (segs[k][2] - segs[k][1]) :
                LET p == SegPixels(pre, segs[k])[j]
                    v == p[1] * p[2] * p[3]
                IN  WithProduct(SegPixels(img, segs[k]), v)
                        = WithProduct(SegPixels(pre, segs[k]), v)

\* A descending-mode segment that was reordered and holds two different
\* pixels of equal product.
C9_Witness ==
    /\ InLine
    /\ mode \in {"Black", "Dark"}
    /\ \E k \in 1 .. Len(segs) :
          LET q == SegPixels(pre, segs[k])
          IN  /\ SegPixels(img, segs[k]) # q
              /\ \E a \in DOMAIN q : \E b \in DOMAIN q :
                    /\ a < b
                    /\ q[a] # q[b]
                    /\ pixel_value(q[a]) = pixel_value(q[b])

\* C10: the set of coordinates whose pixel satisfies should_sort is that of
\* the input at every point of the run, and the segments a call has found
\* when it is about to return are those the scan finds on the same line of
\* the input image.
C10_MaskInvariant ==
    (mode \in Modes) =>
        /\ Mask(img, mode) = Mask(img0, mode)
        /\ Mask(pre, mode) = Mask(img0, mode)
        /\ LineDone =>
              segs = IF InRow THEN row_segments_from(img0, 0, i, mode)
                              ELSE col_segments_from(img0, i, 0, mode)

\* A call of the second pass on a line the first pass had changed, which
\* found segments and reordered one.
C10_Witness ==
    /\ LineDone
    /\ SecondPass
    /\ Len(segs) >= 1
    /\ img # pre
    /\ \E c \in DOMAIN pre.px : OnLine(c) /\ pre.px[c] # img0.px[c]

\* An upper bound on the steps the run has left: a call of a line of n pixels
\* takes the call, at most n iterations and the return.
ColsLeft(im, k) == (im.width - k) * (im.height + 2) + 1
RowsLeft(im, k) == (im.height - k) * (im.width + 2) + 1
AfterLoop(l, im) ==
    CASE l = "h_cols" -> RowsLeft(im, 0) + 1
      [] l = "v_rows" -> ColsLeft(im, 0) + 1
      [] OTHER -> 1
StepBound == 2 * MaxCells + 2 * MaxW + 2 * MaxH + 4
StepsLeft ==
    CASE pc \in Terminal -> 0
      [] pc = "write" -> 1
      [] pc = "for" /\ loop \in {"h_cols", "v_cols"} ->
           ColsLeft(img, i) + AfterLoop(loop, img)
      [] pc = "for" /\ loop \in {"h_rows", "v_rows"} ->
           RowsLeft(img, i) + AfterLoop(loop, img)
      [] pc = "process_column" ->
           (img.height - scan) + 1 + ColsLeft(img, i + 1) + AfterLoop(loop, img)
      [] pc = "process_row" ->
           (img.width - scan) + 1 + RowsLeft(img, i + 1) + AfterLoop(loop, img)
      [] pc = "match" -> ColsLeft(img, 0) + RowsLeft(img, 0) + 2
      [] pc = "read" -> StepBound + 1
      [] pc = "parse" -> StepBound + 2

\* C7: with a valid direction the run never panics and never stops before
\* its end (a step of main is enabled, or an iteration of the current call
\* is due); every step lowers the bound StepsLeft on the steps left, so the
\* run terminates; inside a call the scan index stays within 0 .. line
\* length, the line index within the image, and every iteration of the outer
\* while loop raises the scan index; an image of width 0 or height 0 has no
\* iteration at all and stays as decoded.
C7_Totality ==
    /\ [](direction \in ValidDirections => pc # "panic")
    /\ []((direction \in ValidDirections /\ pc \notin Terminal) =>
             \/ ENABLED (Parse \/ ReadError \/ MatchDirection \/ ForColumns \/ ForRows
                           \/ ProcessRowReturn \/ ProcessColumnReturn \/ WriteOutput)
             \/ (InLine /\ scan < LineLen))
    /\ [][StepsLeft' < StepsLeft]_vars
    /\ [](InLine => (0 <= scan /\ scan <= LineLen))
    /\ [](InRow => (0 <= i /\ i < img.height))
    /\ [](InCol => (0 <= i /\ i < img.width))
    /\ [][(InLine /\ pc' = pc) => scan' > scan]_vars
    /\ []((img.width = 0 \/ img.height = 0) => (img = img0 /\ segs = <<>>))
    /\ [][(img.width = 0 \/ img.height = 0)
            => ~(ProcessRowIter \/ ProcessColumnIter)]_vars

\* A finished run on an image of width 0 and positive height, whose rows
\* were each called.
C7_Witness ==
    /\ pc = "exit"
    /\ img.width = 0
    /\ img.height > 0
    /\ Len(calls) = img.height

====
